---- MODULE Spec2Model ----
(***************************************************************************)
(* A model of prune-globals.js: the script that reads every .js file of    *)
(* ./src, splits it at the "// Temporary globals" marker, parses the part  *)
(* above the marker with espree, and rewrites every `window.<id> = ...;`   *)
(* line below the marker with a comment that names the other files whose   *)
(* token stream holds <id>.                                                *)
(*                                                                         *)
(* Text is a sequence of symbols.  A symbol is a short string that the     *)
(* script's regular expressions and espree's tokenizer treat as a unit:    *)
(* "//", " ", "\n", "window.", " = ", ";", a name, a literal.  No symbol   *)
(* but "\n" holds a line break, no symbol but " " and "\n" is white space, *)
(* and no two symbols concatenate to a third, so that equality of texts is *)
(* equality of the strings they stand for.                                 *)
(***************************************************************************)
EXTENDS Integers, Sequences, FiniteSets, TLC

VARIABLES
    disk,                  \* file path -> content, the files of ./src
    startDisk,             \* disk as it was when the current run started
    prevDisk,              \* disk as it was when the previous run ended
    run,                   \* number of the current run of the script
    pc,                    \* position in processFiles
    k,                     \* index of the loop the run is in
    fileUpperContent,      \* entries [key, value], in insertion order
    fileLowerContent,      \* entries [key, value], in insertion order
    fileUpperContentTree,  \* entries [key, value], in insertion order
    ioLog,                 \* readFile / writeFile calls of the current run
    errLog,                \* paths passed to console.error by the parse catch
    lastCalls,             \* replacer calls of the latest loop iteration
    failure                \* what ended the run early, if anything

vars == <<disk, startDisk, prevDisk, run, pc, k, fileUpperContent,
          fileLowerContent, fileUpperContentTree, ioLog, errLog, lastCalls,
          failure>>

----------------------------------------------------------------------------
(* Bounds of the model *)

MaxLines == 2
MaxRuns == 2

----------------------------------------------------------------------------
(* Text helpers: String.prototype.indexOf, slice, and the character        *)
(* classes of the regular expressions                                      *)

Min(S) == CHOOSE x \in S : \A y \in S : x <= y
Max(S) == CHOOSE x \in S : \A y \in S : x >= y

Marker == "// Temporary globals"

\* content.indexOf(sym): the first position of sym, 0 when absent (JS: -1)
IndexOf(s, sym) ==
    LET hits == {p \in 1..Len(s) : s[p] = sym}
    IN  IF hits = {} THEN 0 ELSE Min(hits)

\* \s of the regular expressions
IsSpace(c) == c \in {" ", "\n"}

\* `.` matches anything but a line terminator: the first position >= p that
\* `.*` cannot cross
LineEnd(s, p) ==
    LET nls == {q \in p..Len(s) : s[q] = "\n"}
    IN  IF nls = {} THEN Len(s) + 1 ELSE Min(nls)

\* greedy \s* from p: the first position >= p that is not white space
SkipSpaces(s, p) ==
    LET stops == {q \in p..Len(s) : ~IsSpace(s[q])}
    IN  IF stops = {} THEN Len(s) + 1 ELSE Min(stops)

NoMatch == [found |-> FALSE]

\* (window\.(.*?) = .*;)(\s*\/\/.*)? anchored at q
CoreAt(s, q) ==
    IF q > Len(s) \/ s[q] # "window." THEN NoMatch
    ELSE
    LET le  == LineEnd(s, q + 1)
        eqs == {e \in (q + 1)..(le - 1) : s[e] = " = "}
    IN  IF eqs = {} THEN NoMatch
        ELSE
        LET e     == Min(eqs)                 \* (.*?) is lazy
            semis == {f \in (e + 1)..(le - 1) : s[f] = ";"}
        IN  IF semis = {} THEN NoMatch
            ELSE
            LET f == Max(semis)               \* .*; is greedy
                g == SkipSpaces(s, f + 1)     \* \s* crosses line breaks
                hasComment == g <= Len(s) /\ s[g] = "//"
                last == IF hasComment THEN LineEnd(s, g + 1) - 1 ELSE f
            IN  [found      |-> TRUE,
                 first      |-> q,
                 last       |-> last,
                 text       |-> SubSeq(s, q, last),
                 assignment |-> SubSeq(s, q, f),
                 identifier |-> SubSeq(s, q + 1, e - 1),
                 hasComment |-> hasComment,
                 comment    |-> SubSeq(s, f + 1, last)]

\* /(?:\/\/\s*)?(window\.(.*?) = .*;)(\s*\/\/.*)?/ anchored at p
MatchAt(s, p) ==
    IF s[p] = "//"
    THEN LET m == CoreAt(s, SkipSpaces(s, p + 1))
         IN  IF m.found
             THEN [m EXCEPT !.first = p, !.text = SubSeq(s, p, m.last)]
             ELSE NoMatch
    ELSE CoreAt(s, p)

----------------------------------------------------------------------------
(* Node's path module, on texts whose segments are separated by "/"        *)

srcDir == <<".", "/", "src">>

RECURSIVE PathSegments(_)
\* the segments of a path, split at "/"
PathSegments(p) ==
    LET cut == IndexOf(p, "/")
    IN  IF cut = 0 THEN <<p>>
        ELSE <<SubSeq(p, 1, cut - 1)>> \o PathSegments(SubSeq(p, cut + 1, Len(p)))

\* normalisation drops the empty and the "." segments
PathNormalize(segs) == SelectSeq(segs, LAMBDA g : g # <<>> /\ g # <<".">>)

RECURSIVE PathText(_)
PathText(segs) ==
    IF segs = <<>> THEN <<>>
    ELSE IF Len(segs) = 1 THEN segs[1]
    ELSE segs[1] \o <<"/">> \o PathText(Tail(segs))

\* path.join(a, b)
PathJoin(a, b) == PathText(PathNormalize(PathSegments(a \o <<"/">> \o b)))

\* path.relative(from, to), both resolved against the same working directory
PathRelative(from, to) ==
    LET f == PathNormalize(PathSegments(from))
        t == PathNormalize(PathSegments(to))
        same == {n \in 0..Len(f) : n <= Len(t) /\ SubSeq(f, 1, n) = SubSeq(t, 1, n)}
        c == Max(same)
    IN  PathText([n \in 1..(Len(f) - c) |-> <<"..">>] \o SubSeq(t, c + 1, Len(t)))

ExtSymbols == {".js", ".txt"}

\* path.extname(file): the last "."-part of a name that does not start with it
ExtName(file) ==
    IF Len(file) > 1 /\ file[Len(file)] \in ExtSymbols THEN file[Len(file)] ELSE ""

\* formatPath without path.relative: the path as the maps hold it
formatPathNotRelative(filePath) == filePath

\* filePath => path.relative(srcDir, filePath).replace(/\\/g, "/")
formatPath(filePath) ==
    LET rel == PathRelative(srcDir, filePath)
    IN  [n \in 1..Len(rel) |-> IF rel[n] = "\\" THEN "/" ELSE rel[n]]

----------------------------------------------------------------------------
(* espree.parse(text, {ecmaVersion: 2020, sourceType, tokens: true}) on    *)
(* the statements the corpus uses: imports, calls, string statements and   *)
(* `window.x = v` assignments.  Anything else is a SyntaxError.            *)

Keywords == {"import"}
Punctuators == {"{", "}", "(", ")", ";", "*", ",", ".", "="}
StringLits == {"'m'", "'foo'"}
Numerics == {"1", "2"}
BlockComments == {"/*foo*/"}

\* the tokens one symbol contributes; white space and comments contribute none
SymbolTokens(sym) ==
    IF IsSpace(sym) \/ sym \in BlockComments THEN <<>>
    ELSE IF sym = "window."
        THEN <<[type |-> "Identifier", value |-> "window"],
               [type |-> "Punctuator", value |-> "."]>>
    ELSE IF sym = " = " THEN <<[type |-> "Punctuator", value |-> "="]>>
    ELSE IF sym \in Keywords THEN <<[type |-> "Keyword", value |-> sym]>>
    ELSE IF sym \in Punctuators THEN <<[type |-> "Punctuator", value |-> sym]>>
    ELSE IF sym \in StringLits THEN <<[type |-> "String", value |-> sym]>>
    ELSE IF sym \in Numerics THEN <<[type |-> "Numeric", value |-> sym]>>
    ELSE <<[type |-> "Identifier", value |-> sym]>>

RECURSIVE Tokenize(_, _)
\* the token stream of s from position p; a "//" comment runs to the line's end
Tokenize(s, p) ==
    IF p > Len(s) THEN <<>>
    ELSE IF s[p] = "//" \/ s[p] = Marker THEN Tokenize(s, LineEnd(s, p))
    ELSE SymbolTokens(s[p]) \o Tokenize(s, p + 1)

RECURSIVE SplitAt(_, _)
\* the chunks of a token sequence between the punctuators `sep`
SplitAt(toks, sep) ==
    LET hits == {p \in 1..Len(toks) :
                    toks[p].type = "Punctuator" /\ toks[p].value = sep}
    IN  IF hits = {} THEN <<toks>>
        ELSE <<SubSeq(toks, 1, Min(hits) - 1)>>
             \o SplitAt(SubSeq(toks, Min(hits) + 1, Len(toks)), sep)

SyntaxError == [type |-> "SyntaxError"]
Undefined == [type |-> "undefined"]
IdentifierNode(name) == [type |-> "Identifier", name |-> name]

IsId(tok) == tok.type = "Identifier"
IsPunct(tok, v) == tok.type = "Punctuator" /\ tok.value = v

\* one element of an import's { ... } list: `x` or `x as y`
ParseSpecifier(toks) ==
    IF Len(toks) = 1 /\ IsId(toks[1])
    THEN [type |-> "ImportSpecifier",
          imported |-> IdentifierNode(toks[1].value),
          local |-> IdentifierNode(toks[1].value)]
    ELSE IF Len(toks) = 3 /\ IsId(toks[1]) /\ IsId(toks[2])
            /\ toks[2].value = "as" /\ IsId(toks[3])
    THEN [type |-> "ImportSpecifier",
          imported |-> IdentifierNode(toks[1].value),
          local |-> IdentifierNode(toks[3].value)]
    ELSE SyntaxError

ImportDeclaration(specifiers) ==
    IF \E n \in 1..Len(specifiers) : specifiers[n] = SyntaxError
    THEN SyntaxError
    ELSE [type |-> "ImportDeclaration", specifiers |-> specifiers]

\* `import` ... `from` 'm'
ParseImport(toks) ==
    LET n == Len(toks)
        tail == n >= 4 /\ IsId(toks[n - 1]) /\ toks[n - 1].value = "from"
                /\ toks[n].type = "String"
    IN  IF ~tail THEN SyntaxError
        ELSE IF n = 4 /\ IsId(toks[2])
        THEN ImportDeclaration(<<[type |-> "ImportDefaultSpecifier",
                                  imported |-> Undefined,
                                  local |-> IdentifierNode(toks[2].value)]>>)
        ELSE IF n = 6 /\ IsPunct(toks[2], "*") /\ IsId(toks[3])
                /\ toks[3].value = "as" /\ IsId(toks[4])
        THEN ImportDeclaration(<<[type |-> "ImportNamespaceSpecifier",
                                  imported |-> Undefined,
                                  local |-> IdentifierNode(toks[4].value)]>>)
        ELSE IF n >= 5 /\ IsPunct(toks[2], "{") /\ IsPunct(toks[n - 2], "}")
        THEN LET inner == SubSeq(toks, 3, n - 3)
                 items == IF inner = <<>> THEN <<>> ELSE SplitAt(inner, ",")
             IN  ImportDeclaration([m \in 1..Len(items) |-> ParseSpecifier(items[m])])
        ELSE SyntaxError

\* one statement: the tokens between two ";"
ParseStatement(toks, sourceType) ==
    IF toks = <<>> THEN [type |-> "EmptyStatement"]
    ELSE IF toks[1].type = "Keyword" /\ toks[1].value = "import"
    THEN IF sourceType = "module" THEN ParseImport(toks) ELSE SyntaxError
    ELSE IF Len(toks) = 3 /\ IsId(toks[1]) /\ IsPunct(toks[2], "(")
            /\ IsPunct(toks[3], ")")
    THEN [type |-> "ExpressionStatement"]
    ELSE IF Len(toks) = 1 /\ toks[1].type = "String"
    THEN [type |-> "ExpressionStatement"]
    ELSE IF Len(toks) = 5 /\ IsId(toks[1]) /\ IsPunct(toks[2], ".")
            /\ IsId(toks[3]) /\ IsPunct(toks[4], "=")
            /\ toks[5].type \in {"Identifier", "Numeric"}
    THEN [type |-> "ExpressionStatement"]
    ELSE SyntaxError

\* fileUpperContent[filePath].match(/import .* from/) ? "module" : "script"
SourceType(s) ==
    IF \E p \in 1..Len(s) : \E q \in (p + 2)..(Len(s) - 1) :
          /\ s[p] = "import" /\ s[p + 1] = " "
          /\ s[q] = " " /\ s[q + 1] = "from"
          /\ LineEnd(s, p) > q + 1
    THEN "module" ELSE "script"

\* the tree espree returns, or threw = TRUE for a SyntaxError
EspreeParse(s, sourceType) ==
    LET toks   == Tokenize(s, 1)
        chunks == SplitAt(toks, ";")
        \* the text after the last ";" is a statement only when not empty
        stmts  == IF chunks[Len(chunks)] = <<>>
                  THEN SubSeq(chunks, 1, Len(chunks) - 1) ELSE chunks
        body   == [n \in 1..Len(stmts) |-> ParseStatement(stmts[n], sourceType)]
    IN  IF \E n \in 1..Len(body) : body[n] = SyntaxError
        THEN [threw |-> TRUE]
        ELSE [threw |-> FALSE, type |-> "Program", body |-> body, tokens |-> toks]

----------------------------------------------------------------------------
(* findDependencies                                                        *)

RECURSIVE ScanSpecifiers(_, _, _)
\* for (const specifier of node.specifiers): "found" at the break, "throw"
\* when specifier.imported is undefined, "none" at the end of the list
ScanSpecifiers(specifiers, n, identifier) ==
    IF n > Len(specifiers) THEN "none"
    ELSE IF specifiers[n].imported = Undefined THEN "throw"
    ELSE IF <<specifiers[n].imported.name>> = identifier THEN "found"
    ELSE ScanSpecifiers(specifiers, n + 1, identifier)

RECURSIVE ScanBody(_, _, _, _)
\* for (const node of tree.body): the break leaves the inner loop only, so
\* the nodes after an import that was found are still visited
ScanBody(body, n, identifier, foundImport) ==
    IF n > Len(body) THEN [threw |-> FALSE, foundImport |-> foundImport]
    ELSE IF body[n].type # "ImportDeclaration"
    THEN ScanBody(body, n + 1, identifier, foundImport)
    ELSE LET r == ScanSpecifiers(body[n].specifiers, 1, identifier)
         IN  IF r = "throw" THEN [threw |-> TRUE, foundImport |-> foundImport]
             ELSE ScanBody(body, n + 1, identifier, foundImport \/ r = "found")

\* for (const token of tree.tokens): is there a hit before the end
ScanTokens(tokens, identifier) ==
    \E n \in 1..Len(tokens) :
        tokens[n].type = "Identifier" /\ <<tokens[n].value>> = identifier

RECURSIVE ScanEntries(_, _, _, _, _)
\* the loop over Object.entries(fileContentTree), from entry n on
ScanEntries(entries, n, identifier, excludeFiles, dependencies) ==
    IF n > Len(entries) THEN [threw |-> FALSE, dependencies |-> dependencies]
    ELSE
    LET filePath == entries[n].key
        tree     == entries[n].value
    IN  IF \E x \in 1..Len(excludeFiles) : excludeFiles[x] = filePath
        THEN ScanEntries(entries, n + 1, identifier, excludeFiles, dependencies)
        ELSE
        LET imp == ScanBody(tree.body, 1, identifier, FALSE)
        IN  IF imp.threw THEN [threw |-> TRUE, dependencies |-> dependencies]
            ELSE IF imp.foundImport
            THEN ScanEntries(entries, n + 1, identifier, excludeFiles, dependencies)
            ELSE IF ScanTokens(tree.tokens, identifier)
            THEN ScanEntries(entries, n + 1, identifier, excludeFiles,
                             Append(dependencies, filePath))
            ELSE ScanEntries(entries, n + 1, identifier, excludeFiles, dependencies)

\* findDependencies without the excludeFiles test
findDependenciesNoExclude(identifier, fileContentTree, excludeFiles) ==
    ScanEntries(fileContentTree, 1, identifier, <<>>, <<>>)

findDependencies(identifier, fileContentTree, excludeFiles) ==
    ScanEntries(fileContentTree, 1, identifier, excludeFiles, <<>>)

----------------------------------------------------------------------------
(* The replacer of lower.replace(...) and the replace itself               *)

RECURSIVE JoinPaths(_)
\* dependencies.map(formatPath).join(", ")
JoinPaths(paths) ==
    IF paths = <<>> THEN <<>>
    ELSE IF Len(paths) = 1 THEN formatPath(paths[1])
    ELSE formatPath(paths[1]) \o <<",", " ">> \o JoinPaths(Tail(paths))

\* the template literals of the two branches
UsedLine(assignment, formattedPaths) ==
    assignment \o <<" ", "//", " ", "may be used by", " ">> \o formattedPaths
UnusedLine(assignment) ==
    <<"//", " ">> \o assignment \o <<" ", "//", " ", "unused">>

\* (match, assignment, identifier, comment) => ... for the file filePath
Replacer(m, trees, filePath) ==
    LET deps == findDependencies(m.identifier, trees, <<filePath>>)
    IN  [match        |-> m,
         excludeFile  |-> filePath,
         threw        |-> deps.threw,
         dependencies |-> deps.dependencies,
         result       |-> IF deps.threw THEN <<>>
                          ELSE IF Len(deps.dependencies) > 0
                          THEN UsedLine(m.assignment, JoinPaths(deps.dependencies))
                          ELSE UnusedLine(m.assignment)]

RECURSIVE ReplaceFrom(_, _, _, _)
\* String.prototype.replace with the global flag, scanning s from p: every
\* match, leftmost first, is replaced by the replacer's result; an exception
\* raised by the replacer ends the replace
ReplaceFrom(s, p, trees, filePath) ==
    IF p > Len(s) THEN [threw |-> FALSE, text |-> <<>>, calls |-> <<>>]
    ELSE
    LET m == MatchAt(s, p)
    IN  IF ~m.found
        THEN LET rest == ReplaceFrom(s, p + 1, trees, filePath)
             IN  [rest EXCEPT !.text = <<s[p]>> \o @]
        ELSE
        LET call == Replacer(m, trees, filePath)
        IN  IF call.threw
            THEN [threw |-> TRUE, text |-> <<>>, calls |-> <<call>>]
            ELSE LET rest == ReplaceFrom(s, m.last + 1, trees, filePath)
                 IN  [rest EXCEPT !.text = call.result \o @,
                                  !.calls = <<call>> \o @]

----------------------------------------------------------------------------
(* The corpus: the files of ./src a run may find                           *)

\* what fs.readdir lists, in listing order; a name is a text
DirListing == << <<"a", ".js">>, <<"b", ".js">>, <<"c", ".js">>, <<"notes", ".txt">> >>

FilePath(n) == PathJoin(srcDir, DirListing[n])
AllPaths == {FilePath(n) : n \in 1..Len(DirListing)}
JsPaths == {FilePath(n) : n \in {m \in 1..Len(DirListing) : ExtName(DirListing[m]) = ".js"}}

\* declaration regions
UEmpty == <<>>
UCallFoo == <<"foo", "(", ")", ";", "\n">>
UCallBar == <<"bar", "(", ")", ";", "\n">>
UAssignFoo == <<"window.", "foo", " = ", "1", ";", "\n">>
UStringComment ==
    <<"'foo'", ";", " ", "/*foo*/", "\n", "//", " ", "foo", "(", ")", ";", "\n">>
UImportFoo ==
    <<"import", " ", "{", " ", "foo", " ", "}", " ", "from", " ", "'m'", ";", "\n",
      "foo", "(", ")", ";", "\n">>
UImportFooAsBar ==
    <<"import", " ", "{", " ", "foo", " ", "as", " ", "bar", " ", "}", " ",
      "from", " ", "'m'", ";", "\n", "bar", "(", ")", ";", "\n">>
UImportDefault ==
    <<"import", " ", "foo", " ", "from", " ", "'m'", ";", "\n",
      "foo", "(", ")", ";", "\n">>
UImportNamespace ==
    <<"import", " ", "*", " ", "as", " ", "foo", " ", "from", " ", "'m'", ";", "\n",
      "bar", "(", ")", ";", "\n">>
UImportMultiLine ==
    <<"import", " ", "{", "\n", "foo", "\n", "}", " ", "from", " ", "'m'", ";", "\n",
      "foo", "(", ")", ";", "\n">>
USyntaxError == <<"foo", "(", ";", "\n">>

AllUppers == {UEmpty, UCallFoo, UCallBar, UAssignFoo, UStringComment, UImportFoo,
              UImportFooAsBar, UImportDefault, UImportNamespace,
              UImportMultiLine, USyntaxError}

\* lines of an annotation region
Assign(x, v) == <<"window.", x, " = ", v, ";">>
LinePlainFoo == Assign("foo", "1")
LinePlainBar == Assign("bar", "2")
LineDisabled == <<"//", " ">> \o Assign("foo", "1") \o <<" ", "//", " ", "unused">>
LineUsed ==
    Assign("foo", "1") \o <<" ", "//", " ", "may be used by", " ", "b", ".js">>
LineSemicolonComment ==
    Assign("foo", "1") \o <<" ", "//", " ", "todo", ";", " ", "later">>
LineCommentOnly == <<"//", " ", "note">>
LineEmptyComment == <<"//">>

LineShapes == {LinePlainFoo, LinePlainBar, LineDisabled, LineUsed,
               LineSemicolonComment, LineCommentOnly, LineEmptyComment}

RECURSIVE JoinLines(_)
\* the lines, each ended by a line break
JoinLines(lines) ==
    IF lines = <<>> THEN <<>>
    ELSE lines[1] \o <<"\n">> \o JoinLines(Tail(lines))

MarkerLine == <<Marker, "\n">>

\* annotation regions: the marker line and up to MaxLines lines
AllLowers ==
    {MarkerLine \o JoinLines(ls) :
        ls \in UNION {[1..n -> LineShapes] : n \in 0..MaxLines}}
LowerTwo == MarkerLine \o JoinLines(<<LinePlainFoo, LinePlainBar>>)
LowerFoo == MarkerLine \o JoinLines(<<LinePlainFoo>>)

NotesText == <<"foo", "\n">> \o LowerFoo

Corpus(a, b, c) ==
    [p \in AllPaths |->
        IF p = FilePath(1) THEN a
        ELSE IF p = FilePath(2) THEN b
        ELSE IF p = FilePath(3) THEN c
        ELSE NotesText]

\* every declaration region in the second and the third file, over simple
\* annotation regions
ScanCorpora ==
    {Corpus(ua \o LowerTwo, ub \o lb, uc) :
        ua \in {UEmpty, UCallFoo, UImportFooAsBar, UImportDefault, USyntaxError},
        ub \in AllUppers, uc \in AllUppers, lb \in {<<>>, LowerFoo}}

\* every annotation region in the first file, over simple declaration regions
RewriteCorpora ==
    {Corpus(UCallFoo \o la, ub, uc) :
        la \in AllLowers \cup {<<>>},
        ub \in {UEmpty, UCallFoo}, uc \in {UEmpty, UCallFoo}}

Corpora == ScanCorpora \cup RewriteCorpora

----------------------------------------------------------------------------
(* Plain objects used as maps: entries in insertion order                  *)

HasKey(entries, key) == \E n \in 1..Len(entries) : entries[n].key = key

\* obj[key] = value
Put(entries, key, value) ==
    IF HasKey(entries, key)
    THEN [n \in 1..Len(entries) |->
            IF entries[n].key = key THEN [key |-> key, value |-> value]
            ELSE entries[n]]
    ELSE Append(entries, [key |-> key, value |-> value])

\* obj[key], for a key the object has
Get(entries, key) ==
    entries[CHOOSE n \in 1..Len(entries) : entries[n].key = key].value

Keys(entries) == [n \in 1..Len(entries) |-> entries[n].key]

----------------------------------------------------------------------------
(* processFiles                                                            *)

NoFailure == [kind |-> "none", path |-> <<>>]

Init ==
    /\ disk \in Corpora
    /\ startDisk = disk
    /\ prevDisk = disk
    /\ run = 1
    /\ pc = "readdir"
    /\ k = 1
    /\ fileUpperContent = <<>>
    /\ fileLowerContent = <<>>
    /\ fileUpperContentTree = <<>>
    /\ ioLog = <<>>
    /\ errLog = <<>>
    /\ lastCalls = <<>>
    /\ failure = NoFailure

\* AfterListingEntry with the second loop inside the first: the files read so
\* far are processed as soon as one is loaded
AfterListingEntryEarly(uppers) ==
    /\ pc' = IF uppers # <<>> THEN "process"
             ELSE IF k < Len(DirListing) THEN "read" ELSE "done"
    /\ k' = IF uppers # <<>> THEN 1
            ELSE IF k < Len(DirListing) THEN k + 1 ELSE 1

\* where the run goes once entry k of the listing is dealt with
AfterListingEntry(uppers) ==
    /\ pc' = IF k < Len(DirListing) THEN "read"
             ELSE IF uppers = <<>> THEN "done" ELSE "process"
    /\ k' = IF k < Len(DirListing) THEN k + 1 ELSE 1

\* fs.readdir calls back without an error
ReaddirOk ==
    /\ pc = "readdir"
    /\ pc' = "read"
    /\ k' = 1
    /\ UNCHANGED <<disk, startDisk, prevDisk, run, fileUpperContent,
                   fileLowerContent, fileUpperContentTree, ioLog, errLog,
                   lastCalls, failure>>

\* fs.readdir calls back with an error: console.error and return
ReaddirError ==
    /\ pc = "readdir"
    /\ pc' = "aborted"
    /\ failure' = [kind |-> "readdir", path |-> srcDir]
    /\ UNCHANGED <<disk, startDisk, prevDisk, run, k, fileUpperContent,
                   fileLowerContent, fileUpperContentTree, ioLog, errLog,
                   lastCalls>>

\* an entry of the listing whose extension is not ".js"
SkipFile ==
    /\ pc = "read"
    /\ ExtName(DirListing[k]) # ".js"
    /\ AfterListingEntry(fileUpperContent)
    /\ UNCHANGED <<disk, startDisk, prevDisk, run, fileUpperContent,
                   fileLowerContent, fileUpperContentTree, ioLog, errLog,
                   lastCalls, failure>>

\* LoadFile with the two content maps filled after the parse, inside the try:
\* a file that does not parse is left out of them
LoadFileDropsUnparsed ==
    /\ pc = "read"
    /\ ExtName(DirListing[k]) = ".js"
    /\ LET filePath   == PathJoin(srcDir, DirListing[k])
           content    == disk[filePath]
           startIndex == IndexOf(content, Marker)
           upper == IF startIndex # 0 THEN SubSeq(content, 1, startIndex - 1)
                    ELSE content
           lower == IF startIndex # 0
                    THEN SubSeq(content, startIndex, Len(content)) ELSE <<>>
           tree  == EspreeParse(upper, SourceType(upper))
           uppers == IF tree.threw THEN fileUpperContent
                     ELSE Put(fileUpperContent, filePath, upper)
       IN  /\ fileUpperContent' = uppers
           /\ fileLowerContent' = IF tree.threw THEN fileLowerContent
                                  ELSE Put(fileLowerContent, filePath, lower)
           /\ IF tree.threw
              THEN /\ errLog' = Append(errLog, filePath)
                   /\ UNCHANGED fileUpperContentTree
              ELSE /\ fileUpperContentTree' = Put(fileUpperContentTree, filePath, tree)
                   /\ UNCHANGED errLog
           /\ ioLog' = Append(ioLog, [op |-> "read", path |-> filePath])
           /\ AfterListingEntry(uppers)
    /\ lastCalls' = <<>>
    /\ UNCHANGED <<disk, startDisk, prevDisk, run, failure>>

\* one iteration of the first loop: read, split at the marker, parse
LoadFile ==
    /\ pc = "read"
    /\ ExtName(DirListing[k]) = ".js"
    /\ LET filePath   == PathJoin(srcDir, DirListing[k])
           content    == disk[filePath]
           startIndex == IndexOf(content, Marker)
           upper == IF startIndex # 0 THEN SubSeq(content, 1, startIndex - 1)
                    ELSE content
           lower == IF startIndex # 0
                    THEN SubSeq(content, startIndex, Len(content)) ELSE <<>>
           tree  == EspreeParse(upper, SourceType(upper))
           uppers == Put(fileUpperContent, filePath, upper)
       IN  /\ fileUpperContent' = uppers
           /\ fileLowerContent' = Put(fileLowerContent, filePath, lower)
           /\ IF tree.threw
              THEN /\ errLog' = Append(errLog, filePath)
                   /\ UNCHANGED fileUpperContentTree
              ELSE /\ fileUpperContentTree' = Put(fileUpperContentTree, filePath, tree)
                   /\ UNCHANGED errLog
           /\ ioLog' = Append(ioLog, [op |-> "read", path |-> filePath])
           /\ AfterListingEntry(uppers)
    /\ lastCalls' = <<>>
    /\ UNCHANGED <<disk, startDisk, prevDisk, run, failure>>

\* fs.readFileSync throws: nothing catches it
ReadError ==
    /\ pc = "read"
    /\ ExtName(DirListing[k]) = ".js"
    /\ pc' = "aborted"
    /\ failure' = [kind |-> "read", path |-> PathJoin(srcDir, DirListing[k])]
    /\ UNCHANGED <<disk, startDisk, prevDisk, run, k, fileUpperContent,
                   fileLowerContent, fileUpperContentTree, ioLog, errLog,
                   lastCalls>>

\* the replace of the second loop's iteration k
Rewrite ==
    LET filePath == Keys(fileUpperContent)[k]
    IN  ReplaceFrom(Get(fileLowerContent, filePath), 1, fileUpperContentTree,
                    filePath)

\* one iteration of the second loop: replace and write
ProcessFile ==
    /\ pc = "process"
    /\ ~Rewrite.threw
    /\ LET filePath == Keys(fileUpperContent)[k]
           updatedContent == Get(fileUpperContent, filePath) \o Rewrite.text
       IN  /\ disk' = [disk EXCEPT ![filePath] = updatedContent]
           /\ ioLog' = Append(ioLog, [op |-> "write", path |-> filePath])
    /\ lastCalls' = Rewrite.calls
    /\ pc' = IF k < Len(fileUpperContent) THEN "process" ELSE "done"
    /\ k' = IF k < Len(fileUpperContent) THEN k + 1 ELSE 1
    /\ UNCHANGED <<startDisk, prevDisk, run, fileUpperContent, fileLowerContent,
                   fileUpperContentTree, errLog, failure>>

\* fs.writeFileSync throws: nothing catches it
WriteError ==
    /\ pc = "process"
    /\ ~Rewrite.threw
    /\ pc' = "aborted"
    /\ failure' = [kind |-> "write", path |-> Keys(fileUpperContent)[k]]
    /\ lastCalls' = Rewrite.calls
    /\ UNCHANGED <<disk, startDisk, prevDisk, run, k, fileUpperContent,
                   fileLowerContent, fileUpperContentTree, ioLog, errLog>>

\* findDependencies throws inside the replacer: nothing catches it
ScanError ==
    /\ pc = "process"
    /\ Rewrite.threw
    /\ pc' = "aborted"
    /\ failure' = [kind |-> "scan", path |-> Keys(fileUpperContent)[k]]
    /\ lastCalls' = Rewrite.calls
    /\ UNCHANGED <<disk, startDisk, prevDisk, run, k, fileUpperContent,
                   fileLowerContent, fileUpperContentTree, ioLog, errLog>>

\* the script is started again on the files the finished run left
RunAgain ==
    /\ pc = "done"
    /\ run < MaxRuns
    /\ run' = run + 1
    /\ prevDisk' = disk
    /\ startDisk' = disk
    /\ pc' = "readdir"
    /\ k' = 1
    /\ fileUpperContent' = <<>>
    /\ fileLowerContent' = <<>>
    /\ fileUpperContentTree' = <<>>
    /\ ioLog' = <<>>
    /\ errLog' = <<>>
    /\ lastCalls' = <<>>
    /\ failure' = NoFailure
    /\ UNCHANGED disk

Next ==
    \/ ReaddirOk
    \/ ReaddirError
    \/ SkipFile
    \/ LoadFile
    \/ ReadError
    \/ ProcessFile
    \/ WriteError
    \/ ScanError
    \/ RunAgain

Spec == Init /\ [][Next]_vars

----------------------------------------------------------------------------
(* What the properties speak of, stated from the files as the run found    *)
(* them rather than from the script's maps                                 *)

Range(seq) == {seq[n] : n \in 1..Len(seq)}

\* the regions of a file's text: before the first marker, and from it on
DeclarationRegion(content) ==
    IF Marker \in Range(content)
    THEN SubSeq(content, 1, Min({p \in 1..Len(content) : content[p] = Marker}) - 1)
    ELSE content
AnnotationRegion(content) ==
    SubSeq(content, Len(DeclarationRegion(content)) + 1, Len(content))

\* the file models of a corpus d: the files whose declaration region parses,
\* in listing order
ModelOf(d, path) ==
    EspreeParse(DeclarationRegion(d[path]), SourceType(DeclarationRegion(d[path])))
ListedJsPaths ==
    SelectSeq([n \in 1..Len(DirListing) |-> FilePath(n)], LAMBDA p : p \in JsPaths)
ModelMap(d) ==
    LET parsed == SelectSeq(ListedJsPaths, LAMBDA p : ~ModelOf(d, p).threw)
    IN  [n \in 1..Len(parsed) |-> [key |-> parsed[n], value |-> ModelOf(d, parsed[n])]]

\* identifier is the text of an Identifier token of the declaration region
OccursAsIdentifier(d, path, identifier) ==
    LET toks == Tokenize(DeclarationRegion(d[path]), 1)
    IN  \E n \in 1..Len(toks) :
            toks[n].type = "Identifier" /\ <<toks[n].value>> = identifier

\* a top-level import declaration of the tree binds the local name identifier
BindsLocalName(tree, identifier) ==
    \E n \in 1..Len(tree.body) :
        /\ tree.body[n].type = "ImportDeclaration"
        /\ \E m \in 1..Len(tree.body[n].specifiers) :
              <<tree.body[n].specifiers[m].local.name>> = identifier

HasIdentifierToken(tree, identifier) ==
    \E n \in 1..Len(tree.tokens) :
        tree.tokens[n].type = "Identifier" /\ <<tree.tokens[n].value>> = identifier

\* the replacer calls that returned
Returned == {n \in 1..Len(lastCalls) : ~lastCalls[n].threw}

Written == {ioLog[n].path : n \in {m \in 1..Len(ioLog) : ioLog[m].op = "write"}}

\* the latest step wrote a file, and lastCalls are the calls of its replace
JustWrote ==
    /\ pc \in {"process", "done"}
    /\ ioLog # <<>>
    /\ ioLog[Len(ioLog)].op = "write"
LastWritten == ioLog[Len(ioLog)].path

\* the name a path of ./src has in the listing
ListedName(path) ==
    DirListing[CHOOSE n \in 1..Len(DirListing) : FilePath(n) = path]

RECURSIVE CommaList(_)
\* the listed names of the paths, separated by ", "
CommaList(paths) ==
    IF paths = <<>> THEN <<>>
    ELSE IF Len(paths) = 1 THEN ListedName(paths[1])
    ELSE ListedName(paths[1]) \o <<",", " ">> \o CommaList(Tail(paths))

\* the annotation of a statement, given the report
Annotated(statement, report) ==
    IF report # <<>>
    THEN statement \o <<" ", "//", " ", "may be used by", " ">> \o CommaList(report)
    ELSE <<"//", " ">> \o statement \o <<" ", "//", " ", "unused">>

RECURSIVE Splice(_, _, _, _)
\* s from p on, with the span of each call's match replaced by its result
Splice(s, p, calls, n) ==
    IF p > Len(s) THEN <<>>
    ELSE IF n <= Len(calls) /\ calls[n].match.first = p
    THEN calls[n].result \o Splice(s, calls[n].match.last + 1, calls, n + 1)
    ELSE <<s[p]>> \o Splice(s, p + 1, calls, n)

RECURSIVE Lines(_)
\* the lines of a text, without their line breaks
Lines(s) ==
    IF s = <<>> THEN <<>>
    ELSE LET e == LineEnd(s, 1)
         IN  <<SubSeq(s, 1, e - 1)>> \o Lines(SubSeq(s, e + 1, Len(s)))

\* the line, taken alone, holds a match of the rewrite pattern
IsAssignmentLine(line) == \E p \in 1..Len(line) : MatchAt(line, p).found

\* `window.<identifier> = <expr>;` of a matched text: from "window." to the
\* first ";" (the corpus has no ";" inside an expression)
BareAssignment(text) ==
    LET w == Min({p \in 1..Len(text) : text[p] = "window."})
        e == Min({p \in w..Len(text) : text[p] = ";"})
    IN  SubSeq(text, w, e)

----------------------------------------------------------------------------
(* Properties                                                              *)

\* C1: idempotence of a full run.  When a run of the script has ended after
\* a run that ended, every file holds what the earlier run left in it.
C1_SecondRunIdentical ==
    (run >= 2 /\ pc = "done") => disk = prevDisk

\* C2: import exclusion.  In every report that findDependencies returned, a
\* file one of whose top-level imports binds the identifier as a local name is
\* absent, and a file with no such import is in the report exactly when its
\* token stream holds the identifier.
C2_ImportExclusion ==
    \A c \in Returned :
        LET call == lastCalls[c]
        IN  \A n \in 1..Len(fileUpperContentTree) :
                LET entry == fileUpperContentTree[n]
                    id    == call.match.identifier
                IN  entry.key # call.excludeFile =>
                      /\ BindsLocalName(entry.value, id)
                            => entry.key \notin Range(call.dependencies)
                      /\ ~BindsLocalName(entry.value, id)
                            => (entry.key \in Range(call.dependencies)
                                  <=> HasIdentifierToken(entry.value, id))

\* C3: self-exclusion.  A report that findDependencies returned for an
\* assignment of a file never holds that file; and when the identifier is an
\* Identifier token of that file's declaration region and of no other file's,
\* the report is empty and the assignment is rewritten as unused.
C3_SelfExclusion ==
    \A c \in Returned :
        LET call   == lastCalls[c]
            id     == call.match.identifier
            origin == call.excludeFile
        IN  /\ origin \notin Range(call.dependencies)
            /\ ( /\ OccursAsIdentifier(startDisk, origin, id)
                 /\ \A p \in JsPaths \ {origin} : ~OccursAsIdentifier(startDisk, p, id) )
               => /\ call.dependencies = <<>>
                  /\ call.result = <<"//", " ">> \o call.match.assignment
                                      \o <<" ", "//", " ", "unused">>

\* C3 witness: a returned call for an identifier that is a token of the origin
\* file alone, rewritten as unused
C3_Witness ==
    \E c \in Returned :
        LET call == lastCalls[c]
        IN  /\ OccursAsIdentifier(startDisk, call.excludeFile, call.match.identifier)
            /\ \A p \in JsPaths \ {call.excludeFile} :
                  ~OccursAsIdentifier(startDisk, p, call.match.identifier)
            /\ call.dependencies = <<>>
            /\ JustWrote

C5_ParseFailure ==
    /\ \A n \in 1..Len(fileUpperContent) :
          LET path == fileUpperContent[n].key
              bad  == ModelOf(startDisk, path).threw
          IN  /\ bad <=> path \in Range(errLog)
              /\ bad <=> ~HasKey(fileUpperContentTree, path)
              /\ bad => \A c \in Returned : path \notin Range(lastCalls[c].dependencies)
    /\ (pc \in {"process", "done"}) => Range(Keys(fileUpperContent)) = JsPaths
    /\ pc = "done" => Written = JsPaths
    /\ pc = "aborted" => failure.kind \in {"readdir", "read", "write", "scan"}
    /\ (JustWrote /\ ModelOf(startDisk, LastWritten).threw) =>
          LET lower == AnnotationRegion(startDisk[LastWritten])
          IN  /\ (\E p \in 1..Len(lower) : MatchAt(lower, p).found) => lastCalls # <<>>
              /\ disk[LastWritten] = DeclarationRegion(startDisk[LastWritten])
                                        \o Splice(lower, 1, lastCalls, 1)

\* C5 witness: a run ended with every file written although the third file,
\* whose text holds foo, did not parse, and the first file's assignment of foo
\* was marked unused
C5_Witness ==
    /\ pc = "done"
    /\ errLog = <<FilePath(3)>>
    /\ "foo" \in Range(startDisk[FilePath(3)])
    /\ Written = JsPaths
    /\ (<<"//", " ">> \o LinePlainFoo \o <<" ", "//", " ", "unused">>)
          \in Range(Lines(disk[FilePath(1)]))

\* C6: error isolation.  When a write error, or an exception raised while the
\* import specifiers of a file are scanned, has ended the run, every other .js
\* file of the corpus has been written.
C6_ErrorIsolation ==
    (pc = "aborted" /\ failure.kind \in {"write", "scan"})
        => \A p \in JsPaths \ {failure.path} : p \in Written

\* C7: frame of the rewrite.  A written file holds its declaration region
\* unchanged, followed by the annotation region with as many lines as before,
\* of which every line that holds no match of the pattern is unchanged.
C7_Frame ==
    JustWrote =>
        LET before == startDisk[LastWritten]
            after  == disk[LastWritten]
            old    == Lines(AnnotationRegion(before))
            new    == Lines(AnnotationRegion(after))
        IN  /\ DeclarationRegion(after) = DeclarationRegion(before)
            /\ Len(new) = Len(old)
            /\ \A n \in 1..Len(old) : ~IsAssignmentLine(old[n]) => new[n] = old[n]
            /\ Marker \notin Range(before) => after = before

\* C8: build-before-scan ordering.  No file is read after a file was written;
\* once the second loop has begun every .js file has been read exactly once
\* and the model map is the one built from the files as the run found them,
\* whatever has been written since; and every report is the one computed from
\* the files as the run found them.
C8_BuildBeforeScan ==
    /\ \A i \in 1..Len(ioLog) : \A j \in 1..Len(ioLog) :
          (i < j /\ ioLog[i].op = "write") => ioLog[j].op = "write"
    /\ (pc \in {"process", "done"} \/ (pc = "aborted" /\ failure.kind \in {"write", "scan"}))
          => LET frozen == ModelMap(startDisk)
             IN  /\ SelectSeq(ioLog, LAMBDA e : e.op = "read")
                       = [n \in 1..Len(ListedJsPaths) |->
                             [op |-> "read", path |-> ListedJsPaths[n]]]
                 /\ fileUpperContentTree = frozen
                 /\ ModelMap(disk) = frozen
                 /\ \A c \in 1..Len(lastCalls) :
                       LET call == lastCalls[c]
                           want == findDependencies(call.match.identifier, frozen,
                                                    <<call.excludeFile>>)
                       IN  /\ call.threw = want.threw
                           /\ call.dependencies = want.dependencies

\* C8 witness: the second file is processed after the first was written, and
\* its assignment has a report that names the first file
C8_Witness ==
    /\ JustWrote
    /\ LastWritten = FilePath(2)
    /\ FilePath(1) \in Written
    /\ disk[FilePath(1)] # startDisk[FilePath(1)]
    /\ \E c \in Returned : FilePath(1) \in Range(lastCalls[c].dependencies)

\* C9: report exactness and order.  A report that findDependencies returned
\* holds, in model-map order and once each, exactly the files of the model map
\* that are not the excluded file, have no import binding for the identifier
\* and have an Identifier token whose value is the identifier.
C9_ReportExact ==
    \A c \in Returned :
        LET call == lastCalls[c]
            id   == call.match.identifier
        IN  call.dependencies =
              Keys(SelectSeq(fileUpperContentTree,
                     LAMBDA entry : /\ entry.key # call.excludeFile
                                    /\ ~BindsLocalName(entry.value, id)
                                    /\ HasIdentifierToken(entry.value, id)))

\* C10: old annotations are discarded.  The text that replaces a match is the
\* annotation of the bare statement `window.<identifier> = <expr>;` of the
\* match with the fresh report: nothing of a leading "//" or of a trailing
\* comment of the matched line is in it.
C10_OldAnnotationsDiscarded ==
    \A c \in Returned :
        LET call == lastCalls[c]
        IN  call.result = Annotated(BareAssignment(call.match.text), call.dependencies)

====
